---- MODULE Spec2Model ----
(***************************************************************************)
(* Racing physics simulation: fixed-step integration driver, vehicle       *)
(* simulation loop (engine/gear, wheel loads, telemetry, temperatures)     *)
(* the weight-transfer model and its damping filter, the tire model, the   *)
(* vehicle settings (tires, suspension, downforce, DRS), the bodies of the *)
(* physics world, and the pause controls of panel, timeline and page.      *)
(*                                                                         *)
(* Fixed-point units (the JavaScript source computes in doubles):          *)
(*   time            ticks, 600 ticks = 1 s  (timeStep 1/60 s = 10 ticks)  *)
(*   playbackSpeed   tenths                                                *)
(*   speed           m/s            wheel velocity   dm/s                  *)
(*   force           N              wheel load       dN (0.1 N)            *)
(*   lengths         mm             weight distribution  per-mille         *)
(*   G               centi-g        angles           milli-rad             *)
(*   rpm             rpm            gear ratios      thousandths           *)
(*   temperature     milli-degrees C                                       *)
(* Div truncates toward zero, so that results are sign-symmetric as the    *)
(* floating-point computations are.                                        *)
(***************************************************************************)
EXTENDS Integers, Sequences, FiniteSets, TLC

VARIABLES
    paused,          \* RacingSimulation.paused
    playbackSpeed,   \* RacingSimulation.playbackSpeed (tenths)
    currentTime,     \* RacingSimulation.currentTime (ticks)
    vehicleType,     \* RacingSimulation.currentVehicleType
    accumulator,     \* PhysicsEngine.accumulator (ticks)
    currentSteering, \* InputManager.currentSteering (thousandths)
    state,           \* VehicleDynamics.state
    telemetry,       \* VehicleDynamics.telemetry
    lastFrame,       \* what the last RacingSimulation.update call did
    frames,          \* number of update calls that ran a frame (bounded)
    wt,              \* one call of WeightTransfer.calculateCombined
    configs,         \* tunable fields of the shared objects RX8_CONFIG / F1_CONFIG
    tire,            \* one call of a TireModel function
    snapshot,        \* what a consumer holds of a getState() result
    construction,    \* one "new VehicleDynamics(config, physics)" and its vehicle
    engine,          \* the direct calls of PhysicsEngine.update: their totals
    damping,         \* WeightTransfer.previousWeights and the last applyDamping call
    world,           \* PhysicsEngine.world: its bodies and constraints (counts)
    panel            \* ControlPanel: controls.paused and the downforce slider

vars == <<paused, playbackSpeed, currentTime, vehicleType, accumulator,
          currentSteering, state, telemetry, lastFrame, frames, wt,
          configs, tire, snapshot, construction, engine, damping, world, panel>>

simVars == <<paused, playbackSpeed, currentTime, vehicleType, accumulator,
             currentSteering, state, telemetry, lastFrame, frames>>

-----------------------------------------------------------------------------
(* Bounds of the model *)

MaxFrames == 2

\* lateral/longitudinal G sampled in steps of 0.5 g up to MaxGSteps steps
MaxGSteps == 6

\* simulation steps run on a vehicle constructed from a sampled configuration
MaxConstructedSteps == 1

\* writes a consumer makes to the snapshot it holds
MaxWrites == 1

\* repeated 'sport' suspension selections are followed up to this spring rate (N/m)
MaxSpringRate == 300000

\* repeated downforce selections are followed up to this coefficient (thousandths)
MaxDownforce == 6000

\* direct calls of PhysicsEngine.update followed in one run
MaxEngineCalls == 3

\* applyDamping calls followed on one WeightTransfer object
MaxDampingCalls == 2

\* vehicles created in one run (the initial one and the vehicle changes)
MaxVehicles == 2

\* repeated tire-type selections are followed up to this peakMu (thousandths)
MaxPeakMu == 1400

-----------------------------------------------------------------------------
(* Program constants *)

TimeStep == 10            \* PHYSICS_CONFIG.timeStep = 1/60 s
TicksPerSecond == 60 * TimeStep
TotalTime == 18000        \* RacingSimulation.totalTime = 30 s
Gravity100 == 981         \* PHYSICS_CONFIG.gravity = 9.81
MaxFrameTicks == 20       \* animate: deltaTime <= 1/30 s
Pi1000 == 3142
AmbientTemp == 20000      \* 20 degrees C
MaxTireTemp == 150000     \* TireModel.updateTireTemperature: Math.min(150, newTemp)
DampingFactor == 800      \* WeightTransfer.dampingFactor = 0.8 (thousandths)

-----------------------------------------------------------------------------
(* Arithmetic helpers *)

Abs(x) == IF x < 0 THEN -x ELSE x

Max(a, b) == IF a >= b THEN a ELSE b

Min(a, b) == IF a <= b THEN a ELSE b

Div(a, b) ==
    IF b > 0 THEN (IF a >= 0 THEN a \div b ELSE -((-a) \div b))
    ELSE (IF a >= 0 THEN -(a \div (-b)) ELSE (-a) \div (-b))

ISqrt(n) == CHOOSE s \in 0..200 : s * s <= n /\ n < (s + 1) * (s + 1)

\* Math.sin, by its Taylor polynomial (|x| <= 1000 milli-rad)
SinMilli(x) ==
    LET x3 == Div(x * x * x, 1000000)
        x5 == Div(x3 * x * x, 1000000)
    IN  x - Div(x3, 6) + Div(x5, 120)

\* Math.atan of a ratio in thousandths, |r| <= 1000
AtanMilli(r) == Div(r * (785 + Div(273 * (1000 - Abs(r)), 1000)), 1000)

-----------------------------------------------------------------------------
(* Vehicle archetype configurations *)

RX8_CONFIG ==
    [ mass |-> 1390, wheelbase |-> 2700,
      trackFront |-> 1500, trackRear |-> 1505,
      cgHeight |-> 450,
      distFront |-> 500, distRear |-> 500,
      springFront |-> 27500, springRear |-> 20000,
      tireRadius |-> 323,
      maxRPM |-> 9000, idleRPM |-> 850,
      gearRatios |-> <<3815, 2260, 1640, 1177, 1000, 832>>,
      finalDrive |-> 4444,
      brakeFront |-> 3500, brakeRear |-> 2000,
      springFrontRace |-> 78800, springRearRace |-> 49000,
      peakMu |-> 1150, loadSensitivity |-> 800,
      pacejkaB |-> 10000, pacejkaC |-> 1500, pacejkaD |-> 1150, pacejkaE |-> 970,
      maxLateralGRace |-> 1030,
      hasDownforce |-> FALSE, downforceFront |-> 0, downforceRear |-> 0,
      hasDrs |-> FALSE,
      torqueCurve |-> << [rpm |-> 3000, torque |-> 200], [rpm |-> 5500, torque |-> 216],
                         [rpm |-> 8500, torque |-> 180], [rpm |-> 9000, torque |-> 160] >> ]

F1_CONFIG ==
    [ mass |-> 798, wheelbase |-> 3600,
      trackFront |-> 2000, trackRear |-> 2000,
      cgHeight |-> 280,
      distFront |-> 455, distRear |-> 545,
      springFront |-> 200000, springRear |-> 150000,
      tireRadius |-> 330,
      maxRPM |-> 15000, idleRPM |-> 4000,
      gearRatios |-> <<3500, 2618, 2150, 1778, 1500, 1267, 1050, 850>>,
      finalDrive |-> 3900,
      brakeFront |-> 12000, brakeRear |-> 8000,
      springFrontRace |-> 0, springRearRace |-> 0,      \* not defined for the F1
      peakMu |-> 1800, loadSensitivity |-> 700,
      pacejkaB |-> 12000, pacejkaC |-> 1800, pacejkaD |-> 1800, pacejkaE |-> 950,
      maxLateralGRace |-> 0,                            \* not defined for the F1
      hasDownforce |-> TRUE, downforceFront |-> 1500, downforceRear |-> 2000,
      hasDrs |-> TRUE,
      torqueCurve |-> << [rpm |-> 8000, torque |-> 500], [rpm |-> 10000, torque |-> 650],
                         [rpm |-> 12000, torque |-> 700], [rpm |-> 15000, torque |-> 600] >> ]

VehicleTypes == {"RX8", "F1"}

\* createVehicle: vehicleType === 'F1' ? F1_CONFIG : RX8_CONFIG
ConfigOf(type) == IF type = "F1" THEN F1_CONFIG ELSE RX8_CONFIG

Config == ConfigOf(vehicleType)

\* the fields of a config object that setTireType, setDownforceLevel and
\* setSuspensionSetup assign
Tunables(cfg) ==
    [peakMu |-> cfg.peakMu,
     downforceFront |-> cfg.downforceFront, downforceRear |-> cfg.downforceRear,
     springFront |-> cfg.springFront, springRear |-> cfg.springRear]

\* the archetype objects as the module exports them
PristineConfigs == [type \in VehicleTypes |-> Tunables(ConfigOf(type))]

\* this.vehicle.config is a reference to the archetype object: its tunable fields
Tuned == configs[vehicleType]

-----------------------------------------------------------------------------
(* Sampled inputs of one frame *)

\* frame time handed to RacingSimulation.update (index.js clamps it to 1/30 s)
DeltaTimes == {0, 6, MaxFrameTicks}

PlaybackSpeeds == {10, 20}

\* keys held: throttle (KeyW), brake (KeyS), steer (-1, 0, 1), handbrake (Space)
KeySamples ==
    { [throttle |-> 1, brake |-> 0, steer |-> 0, handbrake |-> FALSE],
      [throttle |-> 0, brake |-> 1, steer |-> 1, handbrake |-> FALSE] }

\* what the rigid-body engine reports: chassis velocity (m/s), accumulated
\* chassis force (N), wheel-body velocity (dm/s), yaw rate (milli-rad/s),
\* wheel-body angular velocity about its axle (centi-rad/s)
BodySamples ==
    { [vx |-> 0,  vz |-> 0,  fx |-> 0,    fz |-> 0,      wvx |-> 0,   wvz |-> 0,   yaw |-> 0,
       wav |-> 0],
      [vx |-> 48, vz |-> 64, fx |-> 9000, fz |-> -11000, wvx |-> 480, wvz |-> 640, yaw |-> 300,
       wav |-> 60000] }

-----------------------------------------------------------------------------
(* PhysicsEngine.update: fixed timestep accumulator *)

\* variant: the loop tests "accumulator > timeStep"
RECURSIVE StepLoopOffByOne(_, _)
StepLoopOffByOne(acc, n) ==
    IF acc > TimeStep
    THEN StepLoopOffByOne(acc - TimeStep, n + 1)
    ELSE [accumulator |-> acc, steps |-> n]

RECURSIVE StepLoop(_, _)
StepLoop(acc, n) ==
    IF acc >= TimeStep
    THEN StepLoop(acc - TimeStep, n + 1)     \* world.step(...); accumulator -= timeStep
    ELSE [accumulator |-> acc, steps |-> n]

\* variant: the remainder below one time step is dropped after the loop
PhysicsUpdateDropRemainder(acc, deltaTime) ==
    LET r == StepLoop(acc + deltaTime, 0)
    IN  [accumulator |-> 0, steps |-> r.steps, alpha |-> 0]

\* returns the new accumulator, the number of world.step calls and alpha (thousandths)
PhysicsUpdate(acc, deltaTime) ==
    LET r == StepLoop(acc + deltaTime, 0)
    IN  [accumulator |-> r.accumulator,
         steps |-> r.steps,
         alpha |-> (r.accumulator * 1000) \div TimeStep]

-----------------------------------------------------------------------------
(* InputManager.update / getControls (keyboard path) *)

SmoothSteering(cur, target, deltaTime) ==
    LET diff == target - cur
        speed == IF target # 0 THEN 3 ELSE 5
    IN  IF Abs(diff) > 1
        THEN Max(-1000, Min(1000, cur + Div(diff * speed * deltaTime, TicksPerSecond)))
        ELSE target

GetControls(keys, steering) ==
    [throttle |-> keys.throttle,
     brake |-> keys.brake,
     handbrake |-> keys.handbrake,
     steeringAngle |-> Div(steering * 35 * Pi1000, 180000)]

-----------------------------------------------------------------------------
(* VehicleDynamics: construction and reset *)

Wheels == 1..4          \* FL, FR, RL, RR (source indices 0..3)

IsLeft(i) == i = 1 \/ i = 3

IsFront(i) == i <= 2

\* this.state of the constructor, after its resetPosition() call
NewVehicleState(cfg) ==
    [rpm |-> cfg.idleRPM, gear |-> 1, speed |-> 0,
     throttle |-> 0, brake |-> 0, steering |-> 0, handbrake |-> FALSE,
     drsActive |-> FALSE,
     wheelLoads |-> <<0, 0, 0, 0>>,
     tireTemps |-> <<AmbientTemp, AmbientTemp, AmbientTemp, AmbientTemp>>,
     brakeTemps |-> <<AmbientTemp, AmbientTemp, AmbientTemp, AmbientTemp>>,
     lateralG |-> 0, longitudinalG |-> 0, yawRate |-> 0]

NewTelemetry ==
    [maxSpeed |-> 0, maxLateralG |-> 0, maxBrakingG |-> 0,
     maxAccelerationG |-> 0, distance |-> 0]

\* resetPosition: the "Reset state" part
ResetPosition(cfg, st) ==
    [st EXCEPT !.rpm = cfg.idleRPM, !.gear = 1, !.speed = 0,
               !.tireTemps = <<AmbientTemp, AmbientTemp, AmbientTemp, AmbientTemp>>,
               !.brakeTemps = <<AmbientTemp, AmbientTemp, AmbientTemp, AmbientTemp>>]

-----------------------------------------------------------------------------
(* VehicleDynamics.updateEngine *)

\* targetRPM = speed / (2 pi r) * 60 * gearRatio * finalDrive
TargetRPM(cfg, gear, speed) ==
    LET circumference == Div(2 * Pi1000 * cfg.tireRadius, 1000)      \* mm
        wheelRPM10 == Div(speed * 600000, circumference)             \* 0.1 rpm
    IN  Div(Div(Div(wheelRPM10 * cfg.gearRatios[gear], 1000) * cfg.finalDrive, 1000), 10)

\* this.state.rpm += rpmDiff * deltaTime * 5
SmoothRPM(rpm, targetRPM, deltaTime) ==
    rpm + Div((targetRPM - rpm) * deltaTime * 5, TicksPerSecond)

\* variant: the upper clamp is missing
ClampRPMNoCeiling(cfg, rpm) == Max(cfg.idleRPM, rpm)

ClampRPM(cfg, rpm) == Max(cfg.idleRPM, Min(cfg.maxRPM, rpm))

\* variant: the upshift does not test that a higher gear exists
SelectGearNoLimit(cfg, gear, rpm) ==
    IF rpm * 100 > cfg.maxRPM * 95 THEN gear + 1
    ELSE IF rpm * 2 < cfg.maxRPM /\ gear > 1 THEN gear - 1
    ELSE gear

\* variant: the downshift threshold is tested with <=
SelectGearInclusive(cfg, gear, rpm) ==
    IF rpm * 100 > cfg.maxRPM * 95 /\ gear < Len(cfg.gearRatios) THEN gear + 1
    ELSE IF rpm * 2 <= cfg.maxRPM /\ gear > 1 THEN gear - 1
    ELSE gear

\* auto gear shifting: rpm > maxRPM * 0.95, rpm < maxRPM * 0.5
SelectGear(cfg, gear, rpm) ==
    IF rpm * 100 > cfg.maxRPM * 95 /\ gear < Len(cfg.gearRatios) THEN gear + 1
    ELSE IF rpm * 2 < cfg.maxRPM /\ gear > 1 THEN gear - 1
    ELSE gear

UpdateEngine(cfg, st, deltaTime) ==
    LET rpm == ClampRPM(cfg, SmoothRPM(st.rpm, TargetRPM(cfg, st.gear, st.speed), deltaTime))
    IN  [st EXCEPT !.rpm = rpm, !.gear = SelectGear(cfg, st.gear, rpm)]

-----------------------------------------------------------------------------
(* VehicleDynamics.calculateWheelForces: the wheel loads *)

TotalWeight(cfg) == Div(cfg.mass * Gravity100, 10)        \* dN

GetStaticWheelLoad(cfg, i) ==
    IF IsFront(i)
    THEN Div(Div(TotalWeight(cfg) * cfg.distFront, 1000), 2)
    ELSE Div(Div(TotalWeight(cfg) * cfg.distRear, 1000), 2)

\* (totalWeight * lateralAccel * cgHeight) / avgTrackWidth, lateralAccel = lateralG * gravity
CalculateLateralWeightTransfer(cfg, lateralG) ==
    LET lateralAccel == Div(lateralG * Gravity100, 100)              \* cm/s^2
    IN  Div(Div(TotalWeight(cfg) * lateralAccel, 100) * cfg.cgHeight * 2,
            cfg.trackFront + cfg.trackRear)

CalculateLongitudinalWeightTransfer(cfg, longitudinalG) ==
    LET longAccel == Div(longitudinalG * Gravity100, 100)
    IN  Div(Div(TotalWeight(cfg) * longAccel, 100) * cfg.cgHeight, cfg.wheelbase)

CalculateDynamicLoad(cfg, i, lateralG, longitudinalG) ==
    (IF IsLeft(i) THEN -CalculateLateralWeightTransfer(cfg, lateralG)
                  ELSE CalculateLateralWeightTransfer(cfg, lateralG))
    + (IF IsFront(i) THEN CalculateLongitudinalWeightTransfer(cfg, longitudinalG)
                     ELSE -CalculateLongitudinalWeightTransfer(cfg, longitudinalG))

\* totalLoad = staticLoad + dynamicLoad; this.state.wheelLoads[index] = totalLoad
WheelLoads(cfg, st) ==
    [i \in Wheels |->
        GetStaticWheelLoad(cfg, i) + CalculateDynamicLoad(cfg, i, st.lateralG, st.longitudinalG)]

CalculateWheelForces(cfg, st) == [st EXCEPT !.wheelLoads = WheelLoads(cfg, st)]

\* calculateSlipAngle of wheel i (all four wheel bodies report the sampled velocity)
CalculateSlipAngle(body, i, steering) ==
    IF Abs(body.wvz) < 1 THEN 0
    ELSE AtanMilli(Div(body.wvx * 1000, Abs(body.wvz)))
         - (IF IsFront(i) THEN steering ELSE 0)

\* calculateSlipRatio, in thousandths (velocities in mm/s)
CalculateSlipRatio(cfg, st, body) ==
    LET wheelLinearVel == Div(body.wav * cfg.tireRadius, 100)
        vehicleVel == st.speed * 1000
    IN  IF vehicleVel < 100 THEN 0
        ELSE Div((wheelLinearVel - vehicleVel) * 1000, vehicleVel)

\* getEngineTorque: the first bracketing pair of curve points, else the two
\* end points of the curve
TorquePoints(curve, rpm) ==
    LET hits == {i \in 1..(Len(curve) - 1) : rpm >= curve[i].rpm /\ rpm <= curve[i + 1].rpm}
    IN  IF hits = {}
        THEN [lower |-> curve[1], upper |-> curve[Len(curve)]]
        ELSE LET i == CHOOSE j \in hits : \A k \in hits : j <= k
             IN  [lower |-> curve[i], upper |-> curve[i + 1]]

\* getEngineTorque, in milli-Nm
GetEngineTorque(cfg, rpm) ==
    LET pts == TorquePoints(cfg.torqueCurve, rpm)
    IN  pts.lower.torque * 1000
        + Div((rpm - pts.lower.rpm) * (pts.upper.torque - pts.lower.torque) * 1000,
              pts.upper.rpm - pts.lower.rpm)

CalculateBrakeForce(cfg, st, i) ==
    LET maxBrakeForce == IF IsFront(i) THEN cfg.brakeFront ELSE cfg.brakeRear
        brakeInput == IF st.handbrake /\ ~IsFront(i) THEN Max(st.brake, 1) ELSE st.brake
    IN  maxBrakeForce * brakeInput

-----------------------------------------------------------------------------
(* VehicleDynamics.updateTelemetry, updateTemperatures *)

\* acceleration = body.force / mass; G = acceleration / gravity (centi-g)
GForce(cfg, force) == Div(force * 10000, cfg.mass * Gravity100)

UpdateTelemetryState(cfg, st, body) ==
    [st EXCEPT !.lateralG = GForce(cfg, body.fx),
               !.longitudinalG = GForce(cfg, body.fz),
               !.yawRate = body.yaw]

\* variant: the maxima are overwritten with the values of the step
UpdateTelemetryLatest(tel, st, deltaTime) ==
    [maxSpeed |-> st.speed * 36,
     maxLateralG |-> Abs(st.lateralG),
     maxBrakingG |-> Max(0, -st.longitudinalG),
     maxAccelerationG |-> Max(0, st.longitudinalG),
     distance |-> tel.distance + st.speed * deltaTime]

\* st is the state after UpdateTelemetryState
UpdateTelemetry(tel, st, deltaTime) ==
    [maxSpeed |-> Max(tel.maxSpeed, st.speed * 36),
     maxLateralG |-> Max(tel.maxLateralG, Abs(st.lateralG)),
     maxBrakingG |-> Max(tel.maxBrakingG, Max(0, -st.longitudinalG)),
     maxAccelerationG |-> Max(tel.maxAccelerationG, Max(0, st.longitudinalG)),
     distance |-> tel.distance + st.speed * deltaTime]

TireTemp(st, body, i, deltaTime) ==
    LET temp == st.tireTemps[i]
        slip == Abs(CalculateSlipAngle(body, i, st.steering))
        heatGeneration == Div(slip * st.wheelLoads[i], 10000)
        cooling == Div((temp - AmbientTemp) * deltaTime, 6000)
    IN  temp + heatGeneration - cooling

BrakeTemp(cfg, st, i, deltaTime) ==
    LET temp == st.brakeTemps[i]
        heatGeneration == Div(CalculateBrakeForce(cfg, st, i) * st.speed, 100)
        cooling == Div((temp - AmbientTemp) * deltaTime, 1200)
    IN  temp + heatGeneration - cooling

UpdateTemperatures(cfg, st, body, deltaTime) ==
    [st EXCEPT !.tireTemps = [i \in Wheels |-> TireTemp(st, body, i, deltaTime)],
               !.brakeTemps = IF st.brake > 0
                              THEN [i \in Wheels |-> BrakeTemp(cfg, st, i, deltaTime)]
                              ELSE st.brakeTemps]

-----------------------------------------------------------------------------
(* VehicleDynamics.update *)

SetControls(st, controls, body) ==
    [st EXCEPT !.throttle = controls.throttle, !.brake = controls.brake,
               !.steering = controls.steeringAngle, !.handbrake = controls.handbrake,
               !.speed = ISqrt(body.vx * body.vx + body.vz * body.vz)]

\* the state and the telemetry after one VehicleDynamics.update(controls, deltaTime)
VehicleUpdate(cfg, st, tel, controls, deltaTime, body) ==
    LET s1 == SetControls(st, controls, body)
        s2 == UpdateEngine(cfg, s1, deltaTime)
        s3 == CalculateWheelForces(cfg, s2)
        s4 == UpdateTelemetryState(cfg, s3, body)
        s5 == UpdateTemperatures(cfg, s4, body, deltaTime)
    IN  [state |-> s5, telemetry |-> UpdateTelemetry(tel, s4, deltaTime),
         slipRatio |-> CalculateSlipRatio(cfg, s2, body)]

\* the order of the calls VehicleDynamics.update makes
VehicleUpdateEvents ==
    <<"controls", "engine", "wheelForces", "aeroForces", "applyForces",
      "telemetry", "temperatures">>

-----------------------------------------------------------------------------
(* WeightTransfer.calculateCombined (loads in dN) *)

CalculateRollEffect(cfg, rollAngle) ==
    LET rollMoment == Div(Div(TotalWeight(cfg) * cfg.cgHeight, 1000) * SinMilli(rollAngle), 1000)
        halfFront == Div(cfg.trackFront, 2)
        halfRear == Div(cfg.trackRear, 2)
        frontRollStiffness == Div(cfg.springFront * Div(halfFront * halfFront, 1000), 1000)
        rearRollStiffness == Div(cfg.springRear * Div(halfRear * halfRear, 1000), 1000)
        totalRollStiffness == frontRollStiffness + rearRollStiffness
        frontShare == Div(frontRollStiffness * 1000, totalRollStiffness)
        rearShare == Div(rearRollStiffness * 1000, totalRollStiffness)
        frontRollTransfer == Div(Div(rollMoment * frontShare, 1000) * 1000, cfg.trackFront)
        rearRollTransfer == Div(Div(rollMoment * rearShare, 1000) * 1000, cfg.trackRear)
    IN  <<-frontRollTransfer, frontRollTransfer, -rearRollTransfer, rearRollTransfer>>

CalculatePitchEffect(cfg, pitchAngle) ==
    LET pitchMoment == Div(Div(TotalWeight(cfg) * cfg.cgHeight, 1000) * SinMilli(pitchAngle), 1000)
        pitchTransfer == Div(pitchMoment * 1000, cfg.wheelbase)
    IN  [front |-> -Div(pitchTransfer, 2), rear |-> Div(pitchTransfer, 2)]

\* variant: the longitudinal transfer is subtracted from both axles
DynamicAxleLoadsSameSign(cfg, longitudinalG) ==
    LET totalWeight == TotalWeight(cfg)
        longTransfer == Div(Div(totalWeight * longitudinalG, 100) * cfg.cgHeight, cfg.wheelbase)
        staticFront == Div(totalWeight * cfg.distFront, 1000)
        staticRear == Div(totalWeight * cfg.distRear, 1000)
    IN  [front |-> staticFront - longTransfer, rear |-> staticRear - longTransfer]

\* dynamicFront = staticFront - longTransfer; dynamicRear = staticRear + longTransfer
DynamicAxleLoads(cfg, longitudinalG) ==
    LET totalWeight == TotalWeight(cfg)
        longTransfer == Div(Div(totalWeight * longitudinalG, 100) * cfg.cgHeight, cfg.wheelbase)
        staticFront == Div(totalWeight * cfg.distFront, 1000)
        staticRear == Div(totalWeight * cfg.distRear, 1000)
    IN  [front |-> staticFront - longTransfer, rear |-> staticRear + longTransfer]

\* variant: the weights are returned unclamped
ClampWeightNone(w) == w

\* "Ensure no negative weights": weights[key] = Math.max(0, weights[key])
ClampWeight(w) == Max(0, w)

CalculateCombined(cfg, lateralG, longitudinalG, rollAngle, pitchAngle) ==
    LET totalWeight == TotalWeight(cfg)
        latTransferFront ==
            Div(Div(Div(totalWeight * cfg.distFront, 1000) * lateralG, 100) * cfg.cgHeight,
                cfg.trackFront)
        latTransferRear ==
            Div(Div(Div(totalWeight * cfg.distRear, 1000) * lateralG, 100) * cfg.cgHeight,
                cfg.trackRear)
        dyn == DynamicAxleLoads(cfg, longitudinalG)
        base == << Div(dyn.front, 2) - latTransferFront,
                   Div(dyn.front, 2) + latTransferFront,
                   Div(dyn.rear, 2) - latTransferRear,
                   Div(dyn.rear, 2) + latTransferRear >>
        rollEffect == IF rollAngle # 0 THEN CalculateRollEffect(cfg, rollAngle)
                      ELSE <<0, 0, 0, 0>>
        pitch == IF pitchAngle # 0 THEN CalculatePitchEffect(cfg, pitchAngle)
                 ELSE [front |-> 0, rear |-> 0]
    IN  [i \in Wheels |->
            ClampWeight(base[i] + rollEffect[i]
                        + (IF IsFront(i) THEN pitch.front ELSE pitch.rear))]

-----------------------------------------------------------------------------
(* RacingSimulation: initial state and operations *)

NoFrame == [steps |-> 0, vehicleUpdates |-> 0, alpha |-> 0, events |-> <<>>,
            slipRatio |-> 0]

NoConstruction == [built |-> FALSE, steps |-> 0]

NoTireCall == [fn |-> "none"]

NoSnapshot == [taken |-> FALSE, rpm |-> 0, gear |-> 0, writes |-> 0]

\* no direct call of PhysicsEngine.update made: total deltaTime passed, total
\* world.step calls, and the steps of the last call
NoEngineCalls == [calls |-> 0, elapsed |-> 0, steps |-> 0, lastSteps |-> 0]

\* new WeightTransfer(): previousWeights = { FL: 0, FR: 0, RL: 0, RR: 0 };
\* current, deltaTime, previous and damped describe the last applyDamping call
NewWeightTransfer ==
    [previousWeights |-> <<0, 0, 0, 0>>, calls |-> 0,
     current |-> <<0, 0, 0, 0>>, deltaTime |-> 0,
     previous |-> <<0, 0, 0, 0>>, damped |-> <<0, 0, 0, 0>>]

\* bodies and constraints one createVehicleBody call adds to the world: the
\* chassis and four wheels, one point-to-point constraint per wheel
VehicleBodies == 5

VehicleConstraints == 4

\* the world after init(): createGround(), then createVehicle(currentVehicleType)
NewWorld == [bodies |-> 1 + VehicleBodies, constraints |-> VehicleConstraints]

\* new ControlPanel(simulation): controls.paused = false; the downforce slider
\* of the vehicle folder is created at 50
NewControlPanel == [paused |-> FALSE, downforceLevel |-> 50]

NoCall == [type |-> "RX8", lateralG |-> 0, longitudinalG |-> 0,
           rollAngle |-> 0, pitchAngle |-> 0,
           done |-> FALSE, weights |-> <<0, 0, 0, 0>>]

Init ==
    /\ configs = PristineConfigs
    /\ construction = NoConstruction
    /\ tire = NoTireCall
    /\ snapshot = NoSnapshot
    /\ paused = FALSE
    /\ playbackSpeed = 10
    /\ currentTime = 0
    /\ vehicleType = "RX8"
    /\ accumulator = 0
    /\ currentSteering = 0
    /\ state = NewVehicleState(RX8_CONFIG)
    /\ telemetry = NewTelemetry
    /\ lastFrame = NoFrame
    /\ frames = 0
    /\ wt = NoCall
    /\ engine = NoEngineCalls
    /\ damping = NewWeightTransfer
    /\ world = NewWorld
    /\ panel = NewControlPanel

\* "if (this.paused) return;"
SkippedUpdate ==
    /\ lastFrame' = NoFrame
    /\ UNCHANGED <<paused, playbackSpeed, currentTime, vehicleType, accumulator,
                   currentSteering, state, telemetry, frames, wt,
                   configs, tire, snapshot, construction,
                   engine, damping, world, panel>>

\* variant: the sequence restarts only once the time has passed totalTime
SequenceEndedStrict(time) == time > TotalTime

\* "Auto-restart at end of sequence": this.currentTime >= this.totalTime
SequenceEnded(time) == time >= TotalTime

\* the body of RacingSimulation.update after the pause test
RunUpdate(deltaTime, keys, body) ==
    LET scaledDeltaTime == Div(deltaTime * playbackSpeed, 10)
        time == currentTime + scaledDeltaTime
        steering == SmoothSteering(currentSteering, keys.steer * 1000, scaledDeltaTime)
        controls == GetControls(keys, steering)
        phys == PhysicsUpdate(accumulator, scaledDeltaTime)
        veh == VehicleUpdate(Config, state, telemetry, controls, scaledDeltaTime, body)
        restart == SequenceEnded(time)
    IN  /\ frames < MaxFrames
        /\ frames' = frames + 1
        /\ currentSteering' = steering
        /\ accumulator' = phys.accumulator
        /\ telemetry' = veh.telemetry
        /\ currentTime' = IF restart THEN 0 ELSE time
        /\ state' = IF restart THEN ResetPosition(Config, veh.state) ELSE veh.state
        /\ lastFrame' = [steps |-> phys.steps,
                         vehicleUpdates |-> 1,
                         alpha |-> phys.alpha,
                         slipRatio |-> veh.slipRatio,   \* fed to calculateTireForce
                         events |-> <<"input">>
                                    \o [k \in 1..phys.steps |-> "integrate"]
                                    \o VehicleUpdateEvents
                                    \o (IF restart THEN <<"restart">> ELSE <<>>)]
        /\ UNCHANGED <<paused, playbackSpeed, vehicleType, wt, configs, tire, snapshot, construction,
                   engine, damping, world, panel>>

\* variant: the pause test is missing
UpdateIgnoringPause(deltaTime, keys, body) == RunUpdate(deltaTime, keys, body)

UpdateWith(deltaTime, keys, body) ==
    IF paused THEN SkippedUpdate ELSE RunUpdate(deltaTime, keys, body)

Update ==
    \E deltaTime \in DeltaTimes, keys \in KeySamples, body \in BodySamples :
        UpdateWith(deltaTime, keys, body)

\* togglePause, called by the play/pause button of the timeline
TogglePause ==
    /\ paused' = ~paused
    /\ UNCHANGED <<playbackSpeed, currentTime, vehicleType, accumulator,
                   currentSteering, state, telemetry, lastFrame, frames, wt,
                   configs, tire, snapshot, construction,
                   engine, damping, world, panel>>

SetPlaybackSpeed ==
    \E speed \in PlaybackSpeeds :
        /\ playbackSpeed' = speed
        /\ UNCHANGED <<paused, currentTime, vehicleType, accumulator,
                       currentSteering, state, telemetry, lastFrame, frames, wt,
                   configs, tire, snapshot, construction,
                   engine, damping, world, panel>>

Restart ==
    /\ currentTime' = 0
    /\ state' = ResetPosition(Config, state)
    /\ UNCHANGED <<paused, playbackSpeed, vehicleType, accumulator,
                   currentSteering, telemetry, lastFrame, frames, wt,
                   configs, tire, snapshot, construction,
                   engine, damping, world, panel>>

\* createVehicleBody / createWheels: world.addBody(chassisBody), and per wheel
\* world.addBody(wheelBody), world.addConstraint(constraint); nothing is removed
CreateVehicleBody(w) ==
    [bodies |-> w.bodies + VehicleBodies,
     constraints |-> w.constraints + VehicleConstraints]

\* ControlPanel.onVehicleChange: changeVehicle -> createVehicle: new
\* VehicleDynamics(config, this.physics), whose constructor calls
\* createVehicleBody; then updateVehicleSpecificControls rebuilds the vehicle
\* folder with its sliders at their defaults
ChangeVehicle ==
    \E type \in VehicleTypes :
        /\ world.bodies < 1 + MaxVehicles * VehicleBodies
        /\ vehicleType' = type
        /\ state' = NewVehicleState(ConfigOf(type))
        /\ telemetry' = NewTelemetry
        /\ world' = CreateVehicleBody(world)
        /\ panel' = [panel EXCEPT !.downforceLevel = 50]
        /\ UNCHANGED <<paused, playbackSpeed, currentTime, accumulator,
                       currentSteering, lastFrame, frames, wt,
                       configs, tire, snapshot, construction,
                       engine, damping>>

\* timeline scrubber released at its end: progress in percent
SetTimeProgress ==
    \E progress \in {100} :
        /\ currentTime' = Div(progress * TotalTime, 100)
        /\ UNCHANGED <<paused, playbackSpeed, vehicleType, accumulator,
                       currentSteering, state, telemetry, lastFrame, frames, wt,
                   configs, tire, snapshot, construction,
                   engine, damping, world, panel>>

Next ==
    \/ Update
    \/ TogglePause
    \/ SetPlaybackSpeed
    \/ Restart
    \/ ChangeVehicle
    \/ SetTimeProgress

Spec == Init /\ [][Next]_vars

\* the playback of one vehicle: frames, pause, playback speed, timeline
\* scrubber and restart button
NextPlayback ==
    \/ Update
    \/ TogglePause
    \/ SetPlaybackSpeed
    \/ Restart
    \/ SetTimeProgress

SpecPlayback == Init /\ [][NextPlayback]_vars

-----------------------------------------------------------------------------
(* The vehicle loop started from a vehicle that has been driven:           *)
(* the engine state is sampled over the gear/rpm pairs updateEngine leaves *)
(* behind (a gear above 1 at high rpm after an upshift, a gear below the   *)
(* top one at low rpm after a downshift), the vehicle standing straight.   *)

RpmSamples(cfg) ==
    {cfg.idleRPM, cfg.maxRPM \div 2, (cfg.maxRPM * 96) \div 100}

DrivenStates(cfg) ==
    { [NewVehicleState(cfg) EXCEPT !.gear = g, !.rpm = r,
                                   !.wheelLoads = [i \in Wheels |-> GetStaticWheelLoad(cfg, i)]] :
        <<g, r>> \in { p \in (1..Len(cfg.gearRatios)) \X RpmSamples(cfg) :
                         /\ p[2] * 100 > cfg.maxRPM * 95 => p[1] > 1
                         /\ p[2] * 2 < cfg.maxRPM => p[1] < Len(cfg.gearRatios) } }

\* a vehicle whose last step left a longitudinal G (0.5 g braking or
\* accelerating) and no lateral G
AcceleratingStates(cfg) ==
    { [NewVehicleState(cfg) EXCEPT !.longitudinalG = g,
                                   !.wheelLoads = [i \in Wheels |-> GetStaticWheelLoad(cfg, i)]] :
        g \in {-50, 50} }

InitVehicle ==
    /\ configs = PristineConfigs
    /\ construction = NoConstruction
    /\ tire = NoTireCall
    /\ snapshot = NoSnapshot
    /\ paused = FALSE
    /\ playbackSpeed = 10
    /\ currentTime = 0
    /\ vehicleType \in VehicleTypes
    /\ accumulator = 0
    /\ currentSteering = 0
    /\ state \in {NewVehicleState(Config)} \cup DrivenStates(Config)
                   \cup AcceleratingStates(Config)
    /\ telemetry = NewTelemetry
    /\ lastFrame = NoFrame
    /\ frames = 0
    /\ wt = NoCall
    /\ engine = NoEngineCalls
    /\ damping = NewWeightTransfer
    /\ world = NewWorld
    /\ panel = NewControlPanel

NextVehicle ==
    \/ Update
    \/ Restart

SpecVehicle == InitVehicle /\ [][NextVehicle]_vars

-----------------------------------------------------------------------------
(* WeightTransfer.calculateCombined called on sampled arguments *)

GSamples == {50 * k : k \in -MaxGSteps..MaxGSteps}

AngleSamples == {-500, 0, 100}

InitWT ==
    /\ configs = PristineConfigs
    /\ construction = NoConstruction
    /\ tire = NoTireCall
    /\ snapshot = NoSnapshot
    /\ paused = FALSE
    /\ playbackSpeed = 10
    /\ currentTime = 0
    /\ vehicleType = "RX8"
    /\ accumulator = 0
    /\ currentSteering = 0
    /\ state = NewVehicleState(RX8_CONFIG)
    /\ telemetry = NewTelemetry
    /\ lastFrame = NoFrame
    /\ frames = 0
    /\ wt \in [type : VehicleTypes, lateralG : GSamples, longitudinalG : GSamples,
               rollAngle : AngleSamples, pitchAngle : AngleSamples,
               done : {FALSE}, weights : {<<0, 0, 0, 0>>}]
    /\ engine = NoEngineCalls
    /\ damping = NewWeightTransfer
    /\ world = NewWorld
    /\ panel = NewControlPanel

Combine ==
    /\ ~wt.done
    /\ wt' = [wt EXCEPT !.done = TRUE,
                        !.weights = CalculateCombined(ConfigOf(wt.type), wt.lateralG,
                                                      wt.longitudinalG, wt.rollAngle,
                                                      wt.pitchAngle)]
    /\ UNCHANGED simVars
    /\ UNCHANGED <<configs, tire, snapshot, construction,
                   engine, damping, world, panel>>

NextWT == Combine

SpecWT == InitWT /\ [][NextWT]_vars

-----------------------------------------------------------------------------
(* TireModel functions called on sampled arguments, on the tire            *)
(* configuration the tire-type selection leaves behind                     *)

\* variant: the result is returned unclamped
ClampSlipNone(slipRatio) == slipRatio

\* "Clamp to reasonable range": Math.max(-1, Math.min(1, slipRatio))
ClampSlip(slipRatio) == Max(-1000, Min(1000, slipRatio))

\* TireModel.calculateSlipRatio (velocities in mm/s, angular velocity in
\* centi-rad/s, result in thousandths); divisor is the denominator of the
\* division the call performed, 0 if it performed none
TireSlipRatio(wheelAngularVelocity, vehicleVelocity, wheelRadius, isBraking) ==
    LET wheelLinearVelocity == Div(wheelAngularVelocity * wheelRadius, 100)
        diff == wheelLinearVelocity - vehicleVelocity
    IN  IF Abs(vehicleVelocity) < 100 /\ Abs(wheelLinearVelocity) < 100
        THEN [value |-> 0, divisor |-> 0]
        ELSE IF isBraking \/ wheelLinearVelocity < vehicleVelocity
        THEN IF Abs(vehicleVelocity) < 100
             THEN [value |-> ClampSlip(-1000), divisor |-> 0]
             ELSE [value |-> ClampSlip(Div(diff * 1000, Abs(vehicleVelocity))),
                   divisor |-> Abs(vehicleVelocity)]
        ELSE IF Abs(wheelLinearVelocity) < 100
             THEN [value |-> ClampSlip(0), divisor |-> 0]
             ELSE [value |-> ClampSlip(Div(diff * 1000, Abs(wheelLinearVelocity))),
                   divisor |-> Abs(wheelLinearVelocity)]

\* Math.atan of any argument in thousandths: atan(x) = pi/2 - atan(1/x) for |x| > 1
AtanWide(x) ==
    IF Abs(x) <= 1000 THEN AtanMilli(x)
    ELSE IF x > 0 THEN Div(Pi1000, 2) - AtanMilli(Div(1000000, x))
    ELSE -Div(Pi1000, 2) - AtanMilli(Div(1000000, x))

\* Math.sin on [0, pi/2] by its Taylor polynomial of degree 7, kept within
\* the range [0, 1] of the sine there
SinQuarter(x) ==
    LET x2 == Div(x * x, 1000)
        x3 == Div(x2 * x, 1000)
        x5 == Div(x3 * x2, 1000)
        x7 == Div(x5 * x2, 1000)
    IN  Max(0, Min(1000, x - Div(x3, 6) + Div(x5, 120) - Div(x7, 5040)))

\* Math.sin for |x| <= pi (milli-rad): sin(x) = sin(pi - x), sin(-x) = -sin(x)
SinWide(x) ==
    LET a == Abs(x)
        y == IF 2 * a <= Pi1000 THEN SinQuarter(a) ELSE SinQuarter(Pi1000 - a)
    IN  IF x >= 0 THEN y ELSE -y

\* Math.pow(normalizedLoad, loadSensitivity), tabulated on the sampled loads
\* (normalizedLoad 0, 1, 2) and the two archetypes' exponents (0.8, 0.7)
PowMilli(base, exponent) ==
    IF base = 0 THEN 0
    ELSE IF base = 1000 THEN 1000
    ELSE IF exponent = 800 THEN 1741 ELSE 1625

\* 9.81 * 250 N, the nominal load per tire, in dN
NominalLoad == Div(Gravity100 * 250, 10)

\* TireModel.calculateForce (Pacejka magic formula), force in dN
CalculateForce(slip, load, cfg) ==
    LET normalizedLoad == Div(load * 1000, NominalLoad)
        loadFactor == PowMilli(normalizedLoad, cfg.loadSensitivity)
        D == Div(Div(cfg.pacejkaD * load, 1000) * loadFactor, 1000)
        Bx == Div(cfg.pacejkaB * slip, 1000)
        arg == Bx - Div(cfg.pacejkaE * (Bx - AtanWide(Bx)), 1000)
    IN  Div(D * SinWide(Div(cfg.pacejkaC * AtanWide(arg), 1000)), 1000)

\* the integer square root of n, known to lie in lo..hi, by bisection
RECURSIVE SqrtBetween(_, _, _)
SqrtBetween(n, lo, hi) ==
    IF lo >= hi THEN lo
    ELSE LET mid == (lo + hi + 1) \div 2
         IN  IF mid * mid <= n THEN SqrtBetween(n, mid, hi)
             ELSE SqrtBetween(n, lo, mid - 1)

\* Math.sqrt(slipLateral^2 + slipLongitudinal^2), in ten-thousandths
SlipMagnitude(slipLateral, slipLongitudinal) ==
    SqrtBetween(100 * (slipLateral * slipLateral + slipLongitudinal * slipLongitudinal),
                0, 15000)

\* TireModel.calculateCombinedForce
CalculateCombinedForce(slipLateral, slipLongitudinal, load, cfg) ==
    LET combinedSlip == SlipMagnitude(slipLateral, slipLongitudinal)
        totalForce == CalculateForce(Div(combinedSlip, 10), load, cfg)
    IN  IF combinedSlip < 10
        THEN [lateral |-> 0, longitudinal |-> 0]
        ELSE [lateral |-> Div(slipLateral * 10 * totalForce, combinedSlip),
              longitudinal |-> Div(slipLongitudinal * 10 * totalForce, combinedSlip)]

SlipSamples == {-1000, 0, 100, 200, 1000}

LoadSamples == {0, NominalLoad, 2 * NominalLoad}

\* calculateCombinedForce on the vehicle's tire configuration: config.tire
\* with the peakMu the tire-type selection assigned
CombinedForceCall ==
    \E slipLateral \in SlipSamples, slipLongitudinal \in SlipSamples, load \in LoadSamples :
        /\ tire = NoTireCall
        /\ tire' = [fn |-> "calculateCombinedForce",
                    slipLateral |-> slipLateral, slipLongitudinal |-> slipLongitudinal,
                    load |-> load,
                    type |-> vehicleType, peakMu |-> Tuned.peakMu,
                    result |-> CalculateCombinedForce(slipLateral, slipLongitudinal, load,
                                                      [Config EXCEPT !.peakMu = Tuned.peakMu])]
        /\ UNCHANGED simVars
        /\ UNCHANGED <<wt, configs, snapshot, construction,
                   engine, damping, world, panel>>

AngularVelocitySamples == {-6000, 0, 30, 6000, 60000}

VelocitySamples == {-20000, 0, 50, 100, 20000, 80000}

SlipRatioCall ==
    \E w \in AngularVelocitySamples, v \in VelocitySamples,
       type \in VehicleTypes, isBraking \in BOOLEAN :
        /\ tire = NoTireCall
        /\ tire' = [fn |-> "calculateSlipRatio",
                    wheelAngularVelocity |-> w, vehicleVelocity |-> v,
                    wheelRadius |-> ConfigOf(type).tireRadius, isBraking |-> isBraking,
                    result |-> TireSlipRatio(w, v, ConfigOf(type).tireRadius, isBraking)]
        /\ UNCHANGED simVars
        /\ UNCHANGED <<wt, configs, snapshot, construction,
                   engine, damping, world, panel>>

\* setTireType: 'race' / 'sport' assign config.tire.peakMu, 'street' nothing
SetTireType ==
    \E type \in {"race", "sport", "street"} :
        LET cfg == Config
            peakMu == IF type = "race"
                      THEN (IF cfg.maxLateralGRace # 0 THEN cfg.maxLateralGRace
                            ELSE Div(Tuned.peakMu * 110, 100))
                      ELSE IF type = "sport" THEN Div(Tuned.peakMu * 105, 100)
                      ELSE Tuned.peakMu
        IN  /\ peakMu <= MaxPeakMu
            /\ configs' = [configs EXCEPT ![vehicleType].peakMu = peakMu]
            /\ UNCHANGED simVars
            /\ UNCHANGED <<wt, tire, snapshot, construction,
                   engine, damping, world, panel>>

NextTire ==
    \/ SlipRatioCall
    \/ CombinedForceCall
    \/ SetTireType
    \/ ChangeVehicle

SpecTire == Init /\ [][NextTire]_vars

-----------------------------------------------------------------------------
(* Vehicle settings: the setters assign fields of this.vehicle.config,     *)
(* which is the archetype object createVehicle passed to the constructor   *)

\* the panel's slider runs from 0 to 100, 50 is the baseline
DownforceLevels == {0, 25, 50, 100}

\* setDownforceLevel: coefficient *= level / 50, if the config has coefficients
SetDownforceLevel ==
    \E level \in DownforceLevels :
        LET front == IF Config.hasDownforce THEN Div(Tuned.downforceFront * level, 50)
                     ELSE Tuned.downforceFront
            rear == IF Config.hasDownforce THEN Div(Tuned.downforceRear * level, 50)
                    ELSE Tuned.downforceRear
        IN  /\ front <= MaxDownforce
            /\ rear <= MaxDownforce
            /\ configs' = [configs EXCEPT ![vehicleType].downforceFront = front,
                                          ![vehicleType].downforceRear = rear]
            /\ panel' = [panel EXCEPT !.downforceLevel = level]   \* the slider's value
            /\ UNCHANGED simVars
            /\ UNCHANGED <<wt, tire, snapshot, construction,
                           engine, damping, world>>

\* setSuspensionSetup: 'race' assigns springRate.frontRace / rearRace (not
\* defined for the F1: 0 stands for the undefined value), 'sport' multiplies
\* by 1.5, 'street' assigns nothing
SetSuspensionSetup ==
    \E setup \in {"race", "sport", "street"} :
        LET front == IF setup = "race" THEN Config.springFrontRace
                     ELSE IF setup = "sport" THEN Div(Tuned.springFront * 3, 2)
                     ELSE Tuned.springFront
            rear == IF setup = "race" THEN Config.springRearRace
                    ELSE IF setup = "sport" THEN Div(Tuned.springRear * 3, 2)
                    ELSE Tuned.springRear
        IN  /\ front <= MaxSpringRate
            /\ rear <= MaxSpringRate
            /\ configs' = [configs EXCEPT ![vehicleType].springFront = front,
                                          ![vehicleType].springRear = rear]
            /\ UNCHANGED simVars
            /\ UNCHANGED <<wt, tire, snapshot, construction,
                   engine, damping, world, panel>>

NextConfig ==
    \/ SetDownforceLevel
    \/ SetSuspensionSetup
    \/ SetTireType
    \/ ChangeVehicle

SpecConfig == Init /\ [][NextConfig]_vars

-----------------------------------------------------------------------------
(* Vehicle construction from a sampled configuration: the RX-8 archetype   *)
(* with mass, wheelbase and track widths replaced by valid, zero and       *)
(* negative values                                                         *)

ConstructionConfigs ==
    { [RX8_CONFIG EXCEPT !.mass = m, !.wheelbase = w, !.trackFront = tf, !.trackRear = tr] :
        m \in {RX8_CONFIG.mass, 0, -RX8_CONFIG.mass},
        w \in {RX8_CONFIG.wheelbase, 0, -RX8_CONFIG.wheelbase},
        tf \in {RX8_CONFIG.trackFront, 0, -RX8_CONFIG.trackFront},
        tr \in {RX8_CONFIG.trackRear, 0} }

\* new VehicleDynamics(config, physicsEngine): the constructor stores the
\* config, creates the bodies and builds this.state and this.telemetry; it
\* tests nothing
NewVehicleDynamics(cfg) ==
    [built |-> TRUE, steps |-> 0, config |-> cfg,
     state |-> NewVehicleState(cfg), telemetry |-> NewTelemetry]

InitConstruct ==
    /\ configs = PristineConfigs
    /\ construction \in {[built |-> FALSE, steps |-> 0, config |-> cfg] :
                            cfg \in ConstructionConfigs}
    /\ tire = NoTireCall
    /\ snapshot = NoSnapshot
    /\ paused = FALSE
    /\ playbackSpeed = 10
    /\ currentTime = 0
    /\ vehicleType = "RX8"
    /\ accumulator = 0
    /\ currentSteering = 0
    /\ state = NewVehicleState(RX8_CONFIG)
    /\ telemetry = NewTelemetry
    /\ lastFrame = NoFrame
    /\ frames = 0
    /\ wt = NoCall
    /\ engine = NoEngineCalls
    /\ damping = NewWeightTransfer
    /\ world = NewWorld
    /\ panel = NewControlPanel

Construct ==
    /\ ~construction.built
    /\ construction' = NewVehicleDynamics(construction.config)
    /\ UNCHANGED simVars
    /\ UNCHANGED <<wt, configs, tire, snapshot,
                   engine, damping, world, panel>>

\* the divisions of the step by mass, wheelbase and track width: a zero
\* divisor yields Infinity or NaN in the source, values these integers do not
\* have, so the step is followed for the non-zero configurations
NoZeroDivisor(cfg) ==
    /\ cfg.mass # 0
    /\ cfg.wheelbase # 0
    /\ cfg.trackFront + cfg.trackRear # 0

\* VehicleDynamics.update on the constructed vehicle
StepConstructed ==
    \E deltaTime \in DeltaTimes, keys \in KeySamples, body \in BodySamples :
        LET cfg == construction.config
            veh == VehicleUpdate(cfg, construction.state, construction.telemetry,
                                 GetControls(keys, 0), deltaTime, body)
        IN  /\ construction.built
            /\ construction.steps < MaxConstructedSteps
            /\ NoZeroDivisor(cfg)
            /\ construction' = [construction EXCEPT !.state = veh.state,
                                                    !.telemetry = veh.telemetry,
                                                    !.steps = @ + 1]
            /\ UNCHANGED simVars
            /\ UNCHANGED <<wt, configs, tire, snapshot,
                   engine, damping, world, panel>>

NextConstruct ==
    \/ Construct
    \/ StepConstructed

SpecConstruct == InitConstruct /\ [][NextConstruct]_vars

-----------------------------------------------------------------------------
(* State snapshots handed to consumers: getState() returns                 *)
(* { ...this.state }, a new object whose scalar fields are copies and      *)
(* whose wheelLoads / tireTemps / brakeTemps fields are the vehicle's own  *)
(* array objects. The snapshot keeps the copied scalars; its array fields  *)
(* are read and written through the vehicle state.                         *)

GetState ==
    /\ snapshot' = [taken |-> TRUE, rpm |-> state.rpm, gear |-> state.gear,
                    writes |-> snapshot.writes]
    /\ UNCHANGED simVars
    /\ UNCHANGED <<wt, configs, tire, construction,
                   engine, damping, world, panel>>

\* the consumer assigns a scalar field of the object it was handed
ConsumerWritesScalar ==
    /\ snapshot.taken
    /\ snapshot.writes < MaxWrites
    /\ snapshot' = [snapshot EXCEPT !.rpm = 0, !.writes = @ + 1]
    /\ UNCHANGED simVars
    /\ UNCHANGED <<wt, configs, tire, construction,
                   engine, damping, world, panel>>

\* the consumer assigns an element of the wheelLoads array of the object it
\* was handed: snapshot.wheelLoads[0] = 0
ConsumerWritesArray ==
    /\ snapshot.taken
    /\ snapshot.writes < MaxWrites
    /\ snapshot' = [snapshot EXCEPT !.writes = @ + 1]
    /\ state' = [state EXCEPT !.wheelLoads[1] = 0]
    /\ UNCHANGED <<paused, playbackSpeed, currentTime, vehicleType, accumulator,
                   currentSteering, telemetry, lastFrame, frames, wt, configs, tire, construction,
                   engine, damping, world, panel>>

NextSnapshot ==
    \/ Update
    \/ GetState
    \/ ConsumerWritesScalar
    \/ ConsumerWritesArray

SpecSnapshot == Init /\ [][NextSnapshot]_vars

-----------------------------------------------------------------------------
(* DRS: the panel's switch, vehicle changes and frames                      *)

\* variant: the flag is assigned whatever the config
SetDRSStateUnchecked(cfg, st, enabled) == [st EXCEPT !.drsActive = enabled]

\* setDRS: if (this.vehicle && this.vehicle.config.drs) state.drsActive = enabled
SetDRSState(cfg, st, enabled) ==
    IF cfg.hasDrs THEN [st EXCEPT !.drsActive = enabled] ELSE st

SetDRS ==
    \E enabled \in BOOLEAN :
        /\ state' = SetDRSState(Config, state, enabled)
        /\ UNCHANGED <<paused, playbackSpeed, currentTime, vehicleType, accumulator,
                       currentSteering, telemetry, lastFrame, frames, wt,
                       configs, tire, snapshot, construction,
                       engine, damping, world, panel>>

\* calculateAerodynamicForces evaluates this.config.drs.downforceReduction:
\* inside "if (this.config.downforceCoefficient)", when state.drsActive
ReadsDrsParameters(cfg, st) == cfg.hasDownforce /\ st.drsActive

NextDRS ==
    \/ SetDRS
    \/ ChangeVehicle
    \/ Update

SpecDRS == Init /\ [][NextDRS]_vars

-----------------------------------------------------------------------------
(* Pausing: the P key and the Pause checkbox of the control panel, the      *)
(* play/pause button of the timeline (TogglePause) and the page visibility  *)

\* ControlPanel.onPauseChange: this.simulation.setPaused(paused)
OnPauseChange(value) == paused' = value

\* keydown 'KeyP': controls.paused = !controls.paused; onPauseChange(controls.paused)
KeyP ==
    /\ panel' = [panel EXCEPT !.paused = ~panel.paused]
    /\ OnPauseChange(~panel.paused)
    /\ UNCHANGED <<playbackSpeed, currentTime, vehicleType, accumulator,
                   currentSteering, state, telemetry, lastFrame, frames, wt,
                   configs, tire, snapshot, construction,
                   engine, damping, world>>

\* the Pause checkbox: the GUI assigns controls.paused, then calls onPauseChange
PauseCheckbox ==
    \E value \in BOOLEAN :
        /\ panel' = [panel EXCEPT !.paused = value]
        /\ OnPauseChange(value)
        /\ UNCHANGED <<playbackSpeed, currentTime, vehicleType, accumulator,
                       currentSteering, state, telemetry, lastFrame, frames, wt,
                       configs, tire, snapshot, construction,
                       engine, damping, world>>

\* visibilitychange: simulation.pause() if document.hidden, else simulation.resume()
VisibilityChange ==
    \E hidden \in BOOLEAN :
        /\ paused' = hidden
        /\ UNCHANGED <<playbackSpeed, currentTime, vehicleType, accumulator,
                       currentSteering, state, telemetry, lastFrame, frames, wt,
                       configs, tire, snapshot, construction,
                       engine, damping, world, panel>>

NextPause ==
    \/ KeyP
    \/ PauseCheckbox
    \/ TogglePause
    \/ VisibilityChange
    \/ Update

SpecPause == Init /\ [][NextPause]_vars

-----------------------------------------------------------------------------
(* PhysicsEngine.update called directly with sampled frame times: below one *)
(* time step, exactly one, several, and the longest scaled frame            *)
(* (1/30 s at playback speed 5)                                             *)

EngineDeltaTimes == {0, 3, 6, TimeStep, MaxFrameTicks, 47, 5 * MaxFrameTicks}

PhysicsEngineUpdate ==
    \E deltaTime \in EngineDeltaTimes :
        LET phys == PhysicsUpdate(accumulator, deltaTime)
        IN  /\ engine.calls < MaxEngineCalls
            /\ accumulator' = phys.accumulator
            /\ engine' = [calls |-> engine.calls + 1,
                          elapsed |-> engine.elapsed + deltaTime,
                          steps |-> engine.steps + phys.steps,
                          lastSteps |-> phys.steps]
            /\ UNCHANGED <<paused, playbackSpeed, currentTime, vehicleType,
                           currentSteering, state, telemetry, lastFrame, frames, wt,
                           configs, tire, snapshot, construction,
                           damping, world, panel>>

NextEngine == PhysicsEngineUpdate

SpecEngine == Init /\ [][NextEngine]_vars

-----------------------------------------------------------------------------
(* WeightTransfer.applyDamping called on the loads calculateCombined        *)
(* returns for the RX-8 (loads in dN)                                       *)

\* rate = Math.min(1, deltaTime * 10), in thousandths
DampingRate(deltaTime) == Min(1000, Div(deltaTime * 10 * 1000, TicksPerSecond))

\* one wheel of applyDamping: previous = this.previousWeights[key] || current,
\* so a stored value of 0 is replaced by the current value
DampedWeight(stored, current, deltaTime) ==
    LET previous == IF stored # 0 THEN stored ELSE current
    IN  previous + Div(Div((current - previous) * DampingRate(deltaTime), 1000) * DampingFactor,
                       1000)

\* straight line, braking, cornering and cornering with the inside wheels lifted
DampingWeightSamples ==
    { CalculateCombined(RX8_CONFIG, lateralG, longitudinalG, 0, 0) :
        lateralG \in {0, 100, 300}, longitudinalG \in {0, -100} }

ApplyDamping ==
    \E currentWeights \in DampingWeightSamples, deltaTime \in DeltaTimes \cup {5 * MaxFrameTicks} :
        LET damped == [i \in Wheels |->
                          DampedWeight(damping.previousWeights[i], currentWeights[i], deltaTime)]
        IN  /\ damping.calls < MaxDampingCalls
            /\ damping' = [previousWeights |-> damped,
                           calls |-> damping.calls + 1,
                           current |-> currentWeights, deltaTime |-> deltaTime,
                           previous |-> damping.previousWeights,
                           damped |-> damped]
            /\ UNCHANGED simVars
            /\ UNCHANGED <<wt, configs, tire, snapshot, construction, engine, world, panel>>

NextDamping == ApplyDamping

SpecDamping == Init /\ [][NextDamping]_vars

-----------------------------------------------------------------------------
(* Properties *)

FrameRan == lastFrame.events # <<>>

\* the frame ended with the auto-restart of the sequence
Restarted(frame) ==
    frame.events # <<>> /\ frame.events[Len(frame.events)] = "restart"

\* C1: after every PhysicsEngine.update call with deltaTime >= 0 the
\* accumulator satisfies 0 <= accumulator < timeStep, and the interpolation
\* factor returned equals accumulator / timeStep and lies in [0, 1).
C1_AccumulatorBelowTimeStep ==
    /\ 0 <= accumulator
    /\ accumulator < TimeStep
    /\ FrameRan => /\ lastFrame.alpha * TimeStep = accumulator * 1000
                   /\ 0 <= lastFrame.alpha
                   /\ lastFrame.alpha < 1000

\* an update that executed several fixed steps and left a remainder
C1_Witness ==
    /\ FrameRan
    /\ lastFrame.steps >= 2
    /\ accumulator > 0

\* C2: the vehicle simulation step (VehicleDynamics.update) is executed
\* exactly once for each fixed physics step the integration driver executes.
C2_OneVehicleUpdatePerFixedStep ==
    lastFrame.vehicleUpdates = lastFrame.steps

EventIndex(ev, name) == CHOOSE i \in DOMAIN ev : ev[i] = name

\* C3: in every update, inputs are sampled, then loads/slip/forces are computed,
\* then the forces are applied, then the rigid-body engine integrates, then
\* telemetry is updated: no integration runs before the update's forces are
\* computed and applied.
C3_IntegrationAfterForces ==
    LET ev == lastFrame.events
    IN  FrameRan =>
            \A i \in DOMAIN ev :
                ev[i] = "integrate" =>
                    /\ EventIndex(ev, "input") < i
                    /\ EventIndex(ev, "wheelForces") < i
                    /\ EventIndex(ev, "applyForces") < i
                    /\ i < EventIndex(ev, "telemetry")

\* C4: while the simulation is paused, a call of RacingSimulation.update
\* changes neither the simulation time, the physics accumulator, the vehicle
\* state nor the telemetry, and runs no frame.
C4_PausedUpdateSkips ==
    [][paused =>
        /\ frames' = frames
        /\ (lastFrame' # lastFrame =>
              UNCHANGED <<currentTime, accumulator, currentSteering, state, telemetry>>)]_vars

\* an update call was skipped after the simulation had run and been paused
C4_Witness ==
    /\ paused
    /\ frames > 0
    /\ currentTime > 0
    /\ lastFrame = NoFrame

\* C5: after construction and after any sequence of steps and restarts,
\* 1 <= gear <= number of gear ratios of the vehicle's config.
C5_GearInRange ==
    /\ 1 <= state.gear
    /\ state.gear <= Len(Config.gearRatios)

\* a step evaluated the shift rule in top gear above the upshift threshold
C5_Witness ==
    /\ frames > 0
    /\ state.gear = Len(Config.gearRatios)
    /\ state.rpm * 100 > Config.maxRPM * 95

\* C6: in each step the gear selector changes the gear by at most one: up by
\* one exactly when the step's RPM exceeds 95% of maxRPM and a higher gear
\* exists, down by one exactly when RPM is below 50% of maxRPM and a lower
\* gear exists, unchanged in every other case.
C6_GearShiftRule ==
    [][(frames' = frames + 1 /\ ~Restarted(lastFrame')) =>
        LET up == state'.rpm * 100 > Config.maxRPM * 95
                  /\ state.gear < Len(Config.gearRatios)
            down == state'.rpm * 2 < Config.maxRPM /\ state.gear > 1
        IN  /\ (state'.gear = state.gear + 1) <=> up
            /\ (state'.gear = state.gear - 1) <=> down
            /\ (state'.gear = state.gear) <=> (~up /\ ~down)]_vars

\* the RX-8 in gear 3 of 6 at 0.96 x maxRPM has shifted to gear 4
C6_Witness ==
    /\ frames > 0
    /\ vehicleType = "RX8"
    /\ state.rpm * 100 = Config.maxRPM * 96
    /\ state.gear = 4

\* C7: after construction and after every step, idleRPM <= rpm <= maxRPM.
C7_RpmInRange ==
    /\ Config.idleRPM <= state.rpm
    /\ state.rpm <= Config.maxRPM

\* a step whose smoothed rpm was held at maxRPM
C7_Witness ==
    /\ frames > 0
    /\ state.speed > 0
    /\ state.rpm = Config.maxRPM

\* C8: after every step each of the four wheel loads stored in the vehicle
\* state is >= 0.
C8_WheelLoadsNonNegative ==
    \A i \in Wheels : state.wheelLoads[i] >= 0

SumOfWeights(w) == w[1] + w[2] + w[3] + w[4]

\* C9: for every archetype and |lateralG| <= 1, |longitudinalG| <= 1 with roll
\* and pitch zero, the four loads of calculateCombined are non-negative and
\* sum to mass x gravity (within 3 units of the fixed-point resolution, 0.3 N).
C9_ModerateGConservesWeight ==
    (/\ wt.done
     /\ Abs(wt.lateralG) <= 100
     /\ Abs(wt.longitudinalG) <= 100
     /\ wt.rollAngle = 0
     /\ wt.pitchAngle = 0)
    => /\ \A i \in Wheels : wt.weights[i] >= 0
       /\ Abs(SumOfWeights(wt.weights) - TotalWeight(ConfigOf(wt.type))) <= 3

\* the corner of the moderate range: 1 g lateral and 1 g longitudinal
C9_Witness ==
    /\ wt.done
    /\ wt.lateralG = 100
    /\ wt.longitudinalG = 100
    /\ wt.rollAngle = 0
    /\ wt.pitchAngle = 0
    /\ \A i \in Wheels : wt.weights[i] > 0

\* C10: for all inputs, every wheel load returned by calculateCombined is >= 0.
C10_CombinedLoadsNonNegative ==
    wt.done => \A i \in Wheels : wt.weights[i] >= 0

\* a call in which the clamp acted: the inside front wheel is unloaded
C10_Witness ==
    /\ wt.done
    /\ wt.lateralG > 100
    /\ wt.rollAngle # 0
    /\ wt.weights[1] = 0
    /\ wt.weights[2] > 0

\* C11: in the simulation loop, with zero lateral G, a positive longitudinal G
\* (acceleration) makes each rear wheel's load greater than its static load
\* and each front wheel's load smaller; a negative one (braking) the reverse.
C11_AccelerationLoadsRearAxle ==
    [][(frames' = frames + 1 /\ state.lateralG = 0 /\ state.longitudinalG # 0) =>
        \A i \in Wheels :
            IF IsFront(i) = (state.longitudinalG > 0)
            THEN state'.wheelLoads[i] < GetStaticWheelLoad(Config, i)
            ELSE state'.wheelLoads[i] > GetStaticWheelLoad(Config, i)]_vars

\* C12: for an RPM below the first torque-curve sample or above the last one,
\* the torque getEngineTorque returns is the torque of the nearest curve end
\* point (clamped, not extrapolated).
C12_TorqueClampedOutsideCurve ==
    [][(frames' = frames + 1 /\ ~Restarted(lastFrame') /\ state'.throttle > 0) =>
        LET curve == Config.torqueCurve
            rpm == state'.rpm            \* the rpm calculateDriveForce's call read
        IN  /\ rpm < curve[1].rpm =>
                  GetEngineTorque(Config, rpm) = curve[1].torque * 1000
            /\ rpm > curve[Len(curve)].rpm =>
                  GetEngineTorque(Config, rpm) = curve[Len(curve)].torque * 1000]_vars

\* C13: for arbitrary finite wheel angular velocity, vehicle velocity, wheel
\* radius and braking flag, TireModel.calculateSlipRatio returns a value in
\* [-1, 1] and never divides by a denominator of magnitude below 0.1.
C13_TireSlipRatioBounded ==
    tire.fn = "calculateSlipRatio" =>
        /\ -1000 <= tire.result.value
        /\ tire.result.value <= 1000
        /\ tire.result.divisor = 0 \/ tire.result.divisor >= 100

\* a wheel driving forward on a vehicle rolling backward: the quotient is
\* above 1 and the clamp acted
C13_Witness ==
    /\ tire.fn = "calculateSlipRatio"
    /\ ~tire.isBraking
    /\ tire.vehicleVelocity < 0
    /\ tire.wheelAngularVelocity > 0
    /\ tire.result.divisor >= 100
    /\ tire.result.value = 1000

\* C14: in every simulation step the slip ratio the vehicle loop computes for
\* a wheel and feeds to the tire-force computation lies in [-1, 1].
C14_LoopSlipRatioBounded ==
    FrameRan => /\ -1000 <= lastFrame.slipRatio
                /\ lastFrame.slipRatio <= 1000

\* C15: with the vehicle at rest (speed 0) and the brake fully applied, the
\* slip ratio the step computes is -1 (locked wheel), for any wheel angular
\* velocity.
C15_LockedWheelAtRest ==
    [][(/\ frames' = frames + 1
        /\ ~Restarted(lastFrame')
        /\ state'.speed = 0
        /\ state'.brake = 1) => lastFrame'.slipRatio = -1000]_vars

\* the friction-circle bound peakMu x L x loadFactor of a call, in N
FrictionBound(call) ==
    LET loadFactor == PowMilli(Div(call.load * 1000, NominalLoad),
                               ConfigOf(call.type).loadSensitivity)
    IN  Div(Div(Div(call.peakMu * call.load, 1000) * loadFactor, 1000), 10)

\* C16: for every load L >= 0, every slip pair and every tire configuration
\* reachable at runtime, the magnitude of the force calculateCombinedForce
\* returns is at most peakMu x L x loadFactor (within 2 N).
C16_FrictionCircleBound ==
    tire.fn = "calculateCombinedForce" =>
        LET lateral == Div(tire.result.lateral, 10)
            longitudinal == Div(tire.result.longitudinal, 10)
            bound == FrictionBound(tire) + 2
        IN  lateral * lateral + longitudinal * longitudinal <= bound * bound

\* C17: after construction and after any sequence of steps, every tire and
\* brake temperature of the vehicle state is at least ambient (20) and every
\* tire temperature at most 150.
C17_TemperaturesInRange ==
    \A i \in Wheels :
        /\ AmbientTemp <= state.tireTemps[i]
        /\ state.tireTemps[i] <= MaxTireTemp
        /\ AmbientTemp <= state.brakeTemps[i]

\* C18: the snapshots handed to consumers are copies: a consumer's write to
\* any part of the object getState() returned (its arrays included) never
\* changes the vehicle's internal state or telemetry.
C18_SnapshotsAreCopies ==
    [][snapshot'.writes = snapshot.writes + 1 =>
          /\ state' = state
          /\ telemetry' = telemetry]_vars

\* C19: the config of a vehicle instance is never modified from construction
\* until it is replaced, and a vehicle created after an archetype swap sees
\* the archetype's original values: the vehicle's config always holds the
\* values its archetype was defined with.
C19_ConfigImmutable ==
    Tuned = Tunables(Config)

InvalidConfig(cfg) ==
    \/ cfg.mass <= 0
    \/ cfg.wheelbase <= 0
    \/ cfg.trackFront <= 0
    \/ cfg.trackRear <= 0

\* C20: constructing a vehicle from a configuration whose mass, wheelbase or
\* front or rear track width is zero or negative fails: no vehicle state is
\* built and no simulation step runs with such a configuration.
C20_InvalidConfigRefused ==
    [][InvalidConfig(construction.config) =>
          /\ ~construction'.built
          /\ construction'.steps = construction.steps]_vars

\* C21: after RacingSimulation.restart(), following any sequence of steps, the
\* whole vehicle state equals the idle defaults of instantiation: rpm = idleRPM,
\* gear = 1, speed = 0, throttle/brake/steering = 0, handbrake off, lateral and
\* longitudinal G = 0, yaw rate = 0, wheel loads = 0, all tire and brake
\* temperatures = 20.
C21_RestartRestoresDefaults ==
    [][Restart =>
          LET defaults == NewVehicleState(Config)
          IN  /\ state'.rpm = defaults.rpm
              /\ state'.gear = defaults.gear
              /\ state'.speed = defaults.speed
              /\ state'.throttle = defaults.throttle
              /\ state'.brake = defaults.brake
              /\ state'.steering = defaults.steering
              /\ state'.handbrake = defaults.handbrake
              /\ state'.lateralG = defaults.lateralG
              /\ state'.longitudinalG = defaults.longitudinalG
              /\ state'.yawRate = defaults.yawRate
              /\ state'.wheelLoads = defaults.wheelLoads
              /\ state'.tireTemps = defaults.tireTemps
              /\ state'.brakeTemps = defaults.brakeTemps]_vars

\* C22: across any sequence of simulation steps and restarts with non-negative
\* deltaTime, each telemetry maximum (maxSpeed, maxLateralG, maxBrakingG,
\* maxAccelerationG) and the cumulative distance never decreases from one step
\* to the next, and each maximum is at least the value observed in the step.
C22_TelemetryMonotone ==
    [][/\ telemetry'.maxSpeed >= telemetry.maxSpeed
       /\ telemetry'.maxLateralG >= telemetry.maxLateralG
       /\ telemetry'.maxBrakingG >= telemetry.maxBrakingG
       /\ telemetry'.maxAccelerationG >= telemetry.maxAccelerationG
       /\ telemetry'.distance >= telemetry.distance
       /\ frames' = frames + 1 =>
            /\ telemetry'.maxSpeed >= state'.speed * 36
            /\ telemetry'.maxLateralG >= Abs(state'.lateralG)
            /\ telemetry'.maxBrakingG >= -state'.longitudinalG
            /\ telemetry'.maxAccelerationG >= state'.longitudinalG]_vars

\* a second step at rest after a step at speed: the maxima stay above the
\* values of the step
C22_Witness ==
    /\ frames = 2
    /\ state.lateralG = 0
    /\ telemetry.maxLateralG > 0
    /\ telemetry.maxBrakingG > 0
    /\ telemetry.maxSpeed > state.speed * 36
    /\ telemetry.distance > 0

\* C27: after every non-paused RacingSimulation.update call with non-negative
\* deltaTime, for any interleaved setTimeProgress and setPlaybackSpeed calls,
\* 0 <= currentTime < totalTime: an update that reaches or passes totalTime
\* restarts the sequence within the same call (currentTime = 0, vehicle reset).
C27_CurrentTimeInSequence ==
    [][frames' = frames + 1 =>
          /\ 0 <= currentTime'
          /\ currentTime' < TotalTime
          /\ currentTime >= TotalTime => Restarted(lastFrame')
          /\ ~Restarted(lastFrame') => currentTime' >= currentTime
          /\ Restarted(lastFrame') =>
                /\ currentTime' = 0
                /\ state'.rpm = Config.idleRPM
                /\ state'.gear = 1
                /\ state'.speed = 0]_vars

\* the scrubber was released at the end of the timeline and the next update
\* restarted the sequence
C27_Witness ==
    /\ Restarted(lastFrame)
    /\ frames > 0
    /\ currentTime = 0
    /\ state.speed = 0

\* C23: over any sequence of PhysicsEngine.update calls with non-negative
\* deltaTime no time is lost or integrated twice: the sum of all deltaTime
\* values equals (fixed steps executed) x timeStep + the accumulator, so the
\* number of fixed steps executed is floor(total deltaTime / timeStep); each
\* call terminates, having executed a finite number of steps.
C23_TimeConserved ==
    /\ engine.elapsed = engine.steps * TimeStep + accumulator
    /\ engine.steps = engine.elapsed \div TimeStep
    /\ engine.lastSteps \in 0..engine.steps

\* three calls, each shorter than the time step, add up to one fixed step
\* and a remainder
C23_Witness ==
    /\ engine.calls = 3
    /\ engine.elapsed = 12
    /\ engine.steps = 1
    /\ engine.lastSteps = 1
    /\ accumulator = 2

\* C24: on every call of WeightTransfer.applyDamping (the first call on a
\* fresh filter and calls where the stored previous value of a wheel is 0
\* included) each wheel's output equals
\* previous + (current - previous) x min(1, 10 x deltaTime) x 0.8, previous
\* being the wheel's stored filter value, and the output becomes the new
\* stored value.
C24_DampingFormula ==
    damping.calls > 0 =>
        /\ \A i \in Wheels :
              damping.damped[i] =
                  damping.previous[i]
                  + Div(Div((damping.current[i] - damping.previous[i])
                            * DampingRate(damping.deltaTime), 1000) * DampingFactor, 1000)
        /\ damping.previousWeights = damping.damped

\* C25: in every simulation step with positive deltaTime in which a brake
\* temperature is above ambient and no brake input is applied (brake = 0),
\* that brake temperature decreases toward ambient: cooling is applied every
\* step, not only while braking.
C25_ReleasedBrakesCool ==
    [][(/\ frames' = frames + 1
        /\ ~Restarted(lastFrame')
        /\ currentTime' > currentTime
        /\ state'.brake = 0) =>
          \A i \in Wheels :
              state.brakeTemps[i] > AmbientTemp =>
                  /\ state'.brakeTemps[i] < state.brakeTemps[i]
                  /\ state'.brakeTemps[i] >= AmbientTemp]_vars

C28_OneVehicleInWorld ==
    /\ world.bodies = 1 + VehicleBodies
    /\ world.constraints = VehicleConstraints

\* C29: after any sequence of pause-related user actions (P key, control-panel
\* Pause checkbox, timeline play/pause button, browser tab hidden/shown) the
\* control panel's paused flag equals the simulation's paused flag, so the
\* next P key press inverts the simulation's actual paused state.
C29_PauseFlagsAgree ==
    panel.paused = paused

\* C30: after any sequence of setDownforceLevel calls on a vehicle with
\* downforce coefficients, the front and rear coefficients equal the
\* archetype's original coefficients multiplied by (most recent level / 50):
\* setDownforceLevel(50) restores the baseline, and calling setDownforceLevel
\* twice with the same level gives the same result as calling it once.
C30_DownforceFollowsLevel ==
    Config.hasDownforce =>
        /\ Tuned.downforceFront = Div(Config.downforceFront * panel.downforceLevel, 50)
        /\ Tuned.downforceRear = Div(Config.downforceRear * panel.downforceLevel, 50)

====
